---- MODULE Spec2Model ----
(***************************************************************************)
(* Rule store and evaluator of the document-scanning service (package      *)
(* engine) together with the HTTP handlers of package api that read and    *)
(* replace the active rule set.                                            *)
(*                                                                         *)
(* Strings that the code inspects character by character (patterns, texts, *)
(* paths) are sequences of tokens; strings that are only copied and        *)
(* compared (ids, severities, descriptions) are TLA+ strings.              *)
(***************************************************************************)
EXTENDS Integers, Sequences, FiniteSets, TLC

\* Longest rule list a caller submits to SetRules or /rules/reload.
MaxRules == 2

\* Number of goroutines that call SetRules in the concurrent specification.
MaxWriters == 2

\* The nil pointer (a compiled pattern that is absent).
Nil == <<"nil">>

(***************************************************************************)
(* regexp.Compile and Regexp.MatchString, for patterns over the tokens  *)
(*   "a" "b"  literals        "."  any character                           *)
(*   "*" "?"  repetition      "["  start of a character class (the         *)
(*   "(?s)"   flag group           alphabet has no "]", so it never closes)*)
(***************************************************************************)
Literals == {"a", "b"}
Atoms == Literals \cup {"."}
RepeatOps == {"*", "?"}

RECURSIVE ParseFrom(_, _, _, _)
\* The parse loop of regexp/syntax: TRUE iff p[i..] is free of syntax errors,
\* given whether an operand is on the stack and whether the previous token
\* was a repetition operator.
ParseFrom(p, i, hasArg, lastRepeat) ==
    IF i > Len(p) THEN TRUE
    ELSE LET t == p[i] IN
         CASE t \in Atoms -> ParseFrom(p, i + 1, TRUE, FALSE)
           [] t = "(?s)" -> ParseFrom(p, i + 1, hasArg, FALSE)
           [] t \in RepeatOps ->
                IF lastRepeat \/ ~hasArg
                THEN FALSE  \* invalid nested repetition / missing argument
                ELSE IF i + 1 <= Len(p) /\ p[i + 1] = "?"
                     THEN ParseFrom(p, i + 2, TRUE, TRUE)  \* non-greedy marker
                     ELSE ParseFrom(p, i + 1, TRUE, TRUE)
           [] OTHER -> FALSE  \* "[": missing closing ]

\* regexp.Compile(p): the compiled program (its source) or Nil on error.
Compile(p) == IF ParseFrom(p, 1, FALSE, FALSE) THEN p ELSE Nil

AtomMatches(t, c) == t = "." \/ t = c

\* Number of tokens the repetition following an atom at i occupies (0..2).
RepeatWidth(re, i) ==
    IF i + 1 <= Len(re) /\ re[i + 1] \in RepeatOps
    THEN IF i + 2 <= Len(re) /\ re[i + 2] = "?" THEN 2 ELSE 1
    ELSE 0

RECURSIVE MatchAt(_, _, _, _)
\* TRUE iff re[i..] matches some prefix of line[j..].
MatchAt(re, i, line, j) ==
    IF i > Len(re) THEN TRUE
    ELSE IF re[i] = "(?s)" THEN MatchAt(re, i + 1, line, j)
    ELSE LET w == RepeatWidth(re, i)
             maxk == IF w = 0 THEN 1
                     ELSE IF re[i + 1] = "?" THEN 1
                     ELSE Len(line) - j + 1
             mink == IF w = 0 THEN 1 ELSE 0
         IN \E k \in mink..maxk :
               /\ j + k - 1 <= Len(line)
               /\ \A d \in 0..(k - 1) : AtomMatches(re[i], line[j + d])
               /\ MatchAt(re, i + 1 + w, line, j + k)

\* Regexp.MatchString: an unanchored search.
MatchString(re, line) == \E j \in 1..(Len(line) + 1) : MatchAt(re, 1, line, j)

(***************************************************************************)
(* Rules, rule-set documents and the files of the rules directory.         *)
(***************************************************************************)
\* A Rule as the decoders build it: CompiledPattern has the tag "-" for both
\* JSON and YAML, so it is nil after decoding.
Rule(id, pattern, severity, description) ==
    [ID |-> id, Pattern |-> pattern, Severity |-> severity,
     Description |-> description, CompiledPattern |-> Nil]

rGood1    == Rule("r1", <<"a">>, "high", "contains a")
rGood2    == Rule("r2", <<"b">>, "LOW", "")
rEmptyId  == Rule("", <<"a">>, "medium", "no id")
rCritical == Rule("r2", <<"a">>, "critical", "severity outside the set")
rBadRegex == Rule("r1", <<"[">>, "high", "unterminated class")
rQuest    == Rule("r2", <<"?">>, "low", "repetition without operand")

\* The rule records a /rules/reload body is built from.
DecodedRules == {rGood1, rGood2, rEmptyId, rCritical, rBadRegex}

\* Every list of at most n elements of S.
ListsUpTo(S, n) == UNION {[1..k -> S] : k \in 0..n}

\* The rule lists a /rules/reload body decodes to.
Bodies == ListsUpTo(DecodedRules, MaxRules)

\* A YAML document is a mapping with the key "rules", a top-level sequence of
\* rule records, or malformed.
Doc(shape, rules) == [shape |-> shape, rules |-> rules]

NoFile == Doc("absent", <<>>)

\* The working directory of the service: rules/<name>.yaml
FileNames == {"list", "map", "dup", "emptyid", "critical", "badregex",
              "quest", "empty", "mapbad", "garbage"}

ReadFile(path) ==
    IF Len(path) # 2 \/ path[1] # "rules" THEN NoFile
    ELSE CASE path[2] = "list.yaml"     -> Doc("list", <<rGood1, rGood2>>)
           [] path[2] = "map.yaml"      -> Doc("map", <<rGood1, rGood2>>)
           [] path[2] = "dup.yaml"      -> Doc("list", <<rGood1, rGood2, rGood1>>)
           [] path[2] = "emptyid.yaml"  -> Doc("list", <<rEmptyId, rGood2>>)
           [] path[2] = "critical.yaml" -> Doc("list", <<rGood1, rCritical>>)
           [] path[2] = "badregex.yaml" -> Doc("list", <<rGood2, rBadRegex>>)
           [] path[2] = "quest.yaml"    -> Doc("list", <<rGood1, rQuest>>)
           [] path[2] = "empty.yaml"    -> Doc("list", <<>>)
           [] path[2] = "mapbad.yaml"   -> Doc("map", <<rEmptyId, rBadRegex, rCritical>>)
           [] path[2] = "garbage.yaml"  -> Doc("malformed", <<>>)
           [] OTHER -> NoFile

\* A decoder that reports no error: a document that is not a sequence of
\* rule records decodes to whatever rules it holds.
UnmarshalListLenient(doc) == [err |-> FALSE, rules |-> doc.rules]

\* yaml.Unmarshal(data, &rules) with rules of type []Rule: a sequence node
\* decodes, a mapping node is a type error.
UnmarshalList(doc) ==
    IF doc.shape = "list" THEN [err |-> FALSE, rules |-> doc.rules]
    ELSE [err |-> TRUE, rules |-> <<>>]

\* yaml.Unmarshal(data, &config) with config of type RulesConfig: a mapping
\* node decodes its key "rules", a sequence node is a type error.
UnmarshalConfig(doc) ==
    IF doc.shape = "map" THEN [err |-> FALSE, rules |-> doc.rules]
    ELSE [err |-> TRUE, rules |-> <<>>]

(***************************************************************************)
(* Package engine: the rule store.                                         *)
(***************************************************************************)
VARIABLES
    currentRules,  \* engine.currentRules: the slice header (backing array, len)
    debugMode,     \* engine.debugMode
    rulesFile,     \* api.rulesFile
    server,        \* "init" before run(), then "serving" or "failed"
    last,          \* the last completed call or request and what it returned
    gor            \* the goroutines of the concurrent specification

vars == <<currentRules, debugMode, rulesFile, server, last, gor>>

\* A slice header over a backing array; cap is read by no caller of GetRules.
Slice(arr) == [arr |-> arr, len |-> Len(arr)]

NilSlice == Slice(<<>>)

\* The elements a reader of the header s ranges over.
Elems(s) == [i \in 1..s.len |-> s.arr[i]]

\* SetRules as it would be if it validated its argument and kept the old set
\* on a violation.
SetRulesValidating(rules) ==
    currentRules' = IF \E i \in 1..Len(rules) : rules[i].ID = "" \/ Compile(rules[i].Pattern) = Nil
                    THEN currentRules
                    ELSE Slice(rules)

\* engine.SetRules
SetRules(rules) == currentRules' = Slice(rules)

\* engine.GetRules
GetRules == currentRules

\* "(?s).*" + pattern + ".*"
WrapDotAll(pattern) == <<"(?s)", ".", "*">> \o pattern \o <<".", "*">>

\* ".*" + pattern + ".*"
WrapAny(pattern) == <<".", "*">> \o pattern \o <<".", "*">>

RECURSIVE YAMLCompileLoop(_, _)
\* The loop of LoadRulesFromYAML over rules[i..]: the first rule whose wrapped
\* pattern does not compile ends it with an error naming that rule.
YAMLCompileLoop(rules, i) ==
    IF i > Len(rules) THEN [err |-> "", id |-> "", rules |-> rules]
    ELSE LET compiled == Compile(WrapDotAll(rules[i].Pattern)) IN
         IF compiled = Nil
         THEN [err |-> "compile", id |-> rules[i].ID, rules |-> <<>>]
         ELSE YAMLCompileLoop(
                  [rules EXCEPT ![i].CompiledPattern = compiled], i + 1)

\* engine.LoadRulesFromYAML up to its call of SetRules: the error, or the
\* rules it is about to activate.
LoadRulesFromYAMLResult(path) ==
    LET doc == ReadFile(path) IN
    IF doc = NoFile THEN [err |-> "read", id |-> "", rules |-> <<>>]
    ELSE LET u == UnmarshalList(doc) IN
         IF u.err THEN [err |-> "parse", id |-> "", rules |-> <<>>]
         ELSE YAMLCompileLoop(u.rules, 1)

\* LoadRulesFromYAML as it would be if it activated the decoded rules before
\* compiling them.
LoadRulesFromYAMLEager(path) ==
    LET doc == ReadFile(path) IN
    IF doc = NoFile \/ UnmarshalList(doc).err THEN UNCHANGED currentRules
    ELSE SetRules(UnmarshalList(doc).rules)

\* engine.LoadRulesFromYAML
LoadRulesFromYAML(path) ==
    LET r == LoadRulesFromYAMLResult(path) IN
    IF r.err # "" THEN UNCHANGED currentRules ELSE SetRules(r.rules)

\* engine.LoadRulesFromFile
LoadRulesFromFile(path) ==
    LET doc == ReadFile(path) IN
    IF doc = NoFile THEN [err |-> "read", rules |-> <<>>]
    ELSE LET u == UnmarshalConfig(doc) IN
         IF u.err THEN [err |-> "parse", rules |-> <<>>]
         ELSE [err |-> "", rules |-> u.rules]

(***************************************************************************)
(* Package engine: the evaluator.                                          *)
(***************************************************************************)
RECURSIVE SplitFrom(_, _, _)
\* strings.Split(text, "\n") over text[i..], cur being the line in progress.
SplitFrom(text, i, cur) ==
    IF i > Len(text) THEN <<cur>>
    ELSE IF text[i] = "\n" THEN <<cur>> \o SplitFrom(text, i + 1, <<>>)
    ELSE SplitFrom(text, i + 1, Append(cur, text[i]))

\* A line reader in the manner of bufio.Scanner: no line after a final "\n".
SplitScanner(text) ==
    LET s == SplitFrom(text, 1, <<>>) IN
    IF Len(s) > 1 /\ s[Len(s)] = <<>> THEN SubSeq(s, 1, Len(s) - 1) ELSE s

\* strings.Split(text, "\n")
Split(text) == SplitFrom(text, 1, <<>>)

\* A finding whose severity is written in lower case.
FindingLowered(fileID, rule, n, line) ==
    [FileID |-> fileID, RuleID |-> rule.ID,
     Severity |-> CASE rule.Severity = "LOW" -> "low"
                    [] rule.Severity = "HIGH" -> "high"
                    [] OTHER -> rule.Severity,
     Line |-> n, Context |-> line, Description |-> rule.Description]

\* A finding whose line number is the 0-based index of the range loop.
FindingZeroBased(fileID, rule, n, line) ==
    [FileID |-> fileID, RuleID |-> rule.ID, Severity |-> rule.Severity,
     Line |-> n - 1, Context |-> line, Description |-> rule.Description]

\* engine.Finding as Evaluate fills it in
Finding(fileID, rule, n, line) ==
    [FileID |-> fileID, RuleID |-> rule.ID, Severity |-> rule.Severity,
     Line |-> n, Context |-> line, Description |-> rule.Description]

RECURSIVE EvaluateRulesFirstMatch(_, _, _, _, _, _)
\* The inner loop as it would be if it left the line at the first rule that
\* matches it.
EvaluateRulesFirstMatch(line, n, fileID, rules, k, debug) ==
    IF k > Len(rules) THEN [panic |-> FALSE, findings |-> <<>>]
    ELSE LET rule == rules[k]
             compiledTemp == Compile(WrapAny(rule.Pattern))
         IN IF /\ rule.CompiledPattern # Nil
               /\ compiledTemp # Nil
               /\ MatchString(compiledTemp, line)
            THEN [panic |-> FALSE, findings |-> <<Finding(fileID, rule, n, line)>>]
            ELSE EvaluateRulesFirstMatch(line, n, fileID, rules, k + 1, debug)

RECURSIVE EvaluateRules(_, _, _, _, _, _)
\* The inner loop of Evaluate over rules[k..] for line number n.  With
\* debugMode set, the log line that prints rule.CompiledPattern.String()
\* dereferences the pointer before the nil check.
EvaluateRules(line, n, fileID, rules, k, debug) ==
    IF k > Len(rules) THEN [panic |-> FALSE, findings |-> <<>>]
    ELSE LET rule == rules[k] IN
         IF debug /\ rule.CompiledPattern = Nil
         THEN [panic |-> TRUE, findings |-> <<>>]
         ELSE LET rest == EvaluateRules(line, n, fileID, rules, k + 1, debug)
                  compiledTemp == Compile(WrapAny(rule.Pattern))
                  hit == /\ rule.CompiledPattern # Nil
                         /\ compiledTemp # Nil
                         /\ MatchString(compiledTemp, line)
              IN [panic |-> rest.panic,
                  findings |-> IF hit
                               THEN <<Finding(fileID, rule, n, line)>>
                                        \o rest.findings
                               ELSE rest.findings]

RECURSIVE EvaluateLines(_, _, _, _, _)
\* The outer loop of Evaluate over lines[n..].
EvaluateLines(lines, n, fileID, rules, debug) ==
    IF n > Len(lines) THEN [panic |-> FALSE, findings |-> <<>>]
    ELSE LET here == EvaluateRules(lines[n], n, fileID, rules, 1, debug) IN
         IF here.panic THEN here
         ELSE LET rest == EvaluateLines(lines, n + 1, fileID, rules, debug) IN
              [panic |-> rest.panic,
               findings |-> here.findings \o rest.findings]

\* Evaluate as it would be if it appended the findings in reverse.
EvaluateReversed(text, fileID, rules, debug) ==
    LET r == EvaluateLines(Split(text), 1, fileID, rules, debug)
        f == r.findings
    IN IF r.panic THEN [panic |-> TRUE, findings |-> <<>>]
       ELSE [panic |-> FALSE,
             findings |-> [i \in 1..Len(f) |-> f[Len(f) + 1 - i]]]

\* Evaluate as it would be if it read the active rule set instead of its
\* argument.
EvaluateActive(text, fileID, rules, debug) ==
    LET r == EvaluateLines(Split(text), 1, fileID, Elems(currentRules), debug) IN
    IF r.panic THEN [panic |-> TRUE, findings |-> <<>>] ELSE r

\* engine.Evaluate
Evaluate(text, fileID, rules, debug) ==
    LET r == EvaluateLines(Split(text), 1, fileID, rules, debug) IN
    IF r.panic THEN [panic |-> TRUE, findings |-> <<>>] ELSE r

(***************************************************************************)
(* engine.ValidateRules is called by ReloadRulesHandler; its body is the   *)
(* validation of the rule-store specification: empty id, repeated id,      *)
(* severity outside the allowed set (case-insensitive), pattern that does  *)
(* not compile, in that order.                                             *)
(***************************************************************************)
AllowedSeverities == {"low", "medium", "high", "informational"}

\* strings.ToLower on the severities in use.
ToLower(s) ==
    CASE s = "LOW" -> "low"
      [] s = "HIGH" -> "high"
      [] OTHER -> s

\* Index of the first rule whose id already occurred, or 0.
FirstDuplicate(rules) ==
    LET dups == {i \in 1..Len(rules) :
                    \E j \in 1..(i - 1) : rules[j].ID = rules[i].ID}
    IN IF dups = {} THEN 0 ELSE CHOOSE i \in dups : \A k \in dups : i <= k

\* Least index of a set of rule positions, or 0 when the set is empty.
FirstIndex(hits) ==
    IF hits = {} THEN 0 ELSE CHOOSE i \in hits : \A k \in hits : i <= k

ValidateRules(rules) ==
    LET EmptyID(r) == r.ID = ""
        BadSeverity(r) == ToLower(r.Severity) \notin AllowedSeverities
        BadPattern(r) == Compile(r.Pattern) = Nil
        e == FirstIndex({i \in 1..Len(rules) : EmptyID(rules[i])})
        d == FirstDuplicate(rules)
        v == FirstIndex({i \in 1..Len(rules) : BadSeverity(rules[i])})
        c == FirstIndex({i \in 1..Len(rules) : BadPattern(rules[i])})
    IN CASE e # 0 -> [err |-> "empty id", id |-> ""]
         [] d # 0 -> [err |-> "duplicate id", id |-> rules[d].ID]
         [] v # 0 -> [err |-> "invalid severity", id |-> rules[v].ID]
         [] c # 0 -> [err |-> "compile", id |-> rules[c].ID]
         [] OTHER -> [err |-> "", id |-> ""]

(***************************************************************************)
(* Package api: requests and handlers.                                     *)
(***************************************************************************)
\* Upload size limit in bytes (MAX_UPLOAD_SIZE of the environment).
maxUploadSize == 4

\* A request body of a scan: whether it parses as a multipart form, whether
\* the form has a "file" part, the extension of its file name, and its bytes.
Upload(hasFile, ext, data) ==
    [multipart |-> TRUE, hasFile |-> hasFile, ext |-> ext, data |-> data]

NotMultipart == [Upload(FALSE, "", <<>>) EXCEPT !.multipart = FALSE]

Uploads ==
    { Upload(TRUE, ".txt", <<>>),
      Upload(TRUE, ".txt", <<"a">>),
      Upload(TRUE, ".txt", <<"b", "\n", "a">>),
      Upload(TRUE, ".txt", <<"a", "\n", "b", "\n", "a">>),
      Upload(TRUE, ".bin", <<"a">>),
      Upload(FALSE, "", <<>>),
      NotMultipart }

FileName(upload) == "doc" \o upload.ext

\* scanner.ExtractText
ExtractText(data, ext) ==
    IF ext \in {".yaml", ".yml", ".txt", ".json", ".xml"}
    THEN [err |-> FALSE, text |-> data]
    ELSE [err |-> TRUE, text |-> <<>>]

RECURSIVE CleanFrom(_, _, _)
\* filepath.Clean on a relative path given as its elements: "." is dropped,
\* ".." removes the element before it unless there is none to remove.
CleanFrom(path, i, out) ==
    IF i > Len(path) THEN (IF out = <<>> THEN <<".">> ELSE out)
    ELSE CASE path[i] = "." -> CleanFrom(path, i + 1, out)
           [] path[i] = ".." ->
                IF out # <<>> /\ out[Len(out)] # ".."
                THEN CleanFrom(path, i + 1, SubSeq(out, 1, Len(out) - 1))
                ELSE CleanFrom(path, i + 1, Append(out, ".."))
           [] OTHER -> CleanFrom(path, i + 1, Append(out, path[i]))

\* The path used as given, not cleaned.
CleanNone(path) == path

\* filepath.Clean
Clean(path) == CleanFrom(path, 1, <<>>)

\* The paths a /rules/load body names; <<>> is the empty string.
RequestPaths ==
    {<<>>, <<"..", "etc", "passwd">>, <<"rules", "..", "..", "rules", "list.yaml">>,
     <<"rules", ".", "list.yaml">>, <<"rules", "nosuch.yaml">>}
    \cup {<<"rules", n \o ".yaml">> : n \in FileNames}

\* The values of the query parameter "rule", as tokens; <<>> is absent.
RuleParams ==
    {<<>>, <<"..", "/", "list">>, <<"list", ".", "yaml">>, <<"a", "\\", "b">>,
     <<"nosuch">>, <<"list">>, <<"map">>, <<"mapbad">>, <<"garbage">>}

RECURSIVE Concat(_)
Concat(tokens) ==
    IF tokens = <<>> THEN "" ELSE Head(tokens) \o Concat(Tail(tokens))

\* strings.ContainsAny(rule, "/\\..")
ContainsAny(rule) == \E i \in 1..Len(rule) : rule[i] \in {"/", "\\", ".", ".."}

Response(code, err, id, findings) ==
    [code |-> code, err |-> err, id |-> id, findings |-> findings]

RECURSIVE ReloadCompileLoop(_, _)
\* The loop of ReloadRulesHandler over rules[i..].
ReloadCompileLoop(rules, i) ==
    IF i > Len(rules) THEN [err |-> "", id |-> "", rules |-> rules]
    ELSE LET compiled == Compile(rules[i].Pattern) IN
         IF compiled = Nil
         THEN [err |-> "compile", id |-> rules[i].ID, rules |-> <<>>]
         ELSE ReloadCompileLoop(
                  [rules EXCEPT ![i].CompiledPattern = compiled], i + 1)

\* ReloadRulesHandler up to its call of SetRules.  req.ok: the body is JSON.
ReloadResult(req) ==
    IF ~req.ok THEN [err |-> "invalid request", id |-> "", rules |-> <<>>]
    ELSE LET v == ValidateRules(req.rules) IN
         IF v.err # "" THEN [err |-> v.err, id |-> v.id, rules |-> <<>>]
         ELSE ReloadCompileLoop(req.rules, 1)

\* ReloadRulesHandler as it would be if it added the new rules to the active
\* ones.
ReloadRulesHandlerMerging(req) ==
    LET r == ReloadResult(req) IN
    IF r.err # "" THEN UNCHANGED currentRules
    ELSE SetRules(Elems(currentRules) \o r.rules)

\* api.ReloadRulesHandler
ReloadRulesHandler(req) ==
    LET r == ReloadResult(req) IN
    IF r.err # "" THEN UNCHANGED currentRules ELSE SetRules(r.rules)

ReloadResponse(req) ==
    LET r == ReloadResult(req) IN
    IF r.err # "" THEN Response(400, r.err, r.id, <<>>)
    ELSE Response(200, "", "", <<>>)

\* api.LoadRulesFromFileHandler: the status it answers.
LoadResponse(req) ==
    IF ~req.ok \/ req.path = <<>> THEN Response(400, "invalid request", "", <<>>)
    ELSE LET path == Clean(req.path) IN
         IF path[1] = ".." THEN Response(400, "invalid path", "", <<>>)
         ELSE LET r == LoadRulesFromYAMLResult(path) IN
              IF r.err # "" THEN Response(500, "load error", "", <<>>)
              ELSE Response(200, "", "", <<>>)

\* api.LoadRulesFromFileHandler
LoadRulesFromFileHandler(req) ==
    IF ~req.ok \/ req.path = <<>> THEN UNCHANGED currentRules
    ELSE LET path == Clean(req.path) IN
         IF path[1] = ".." THEN UNCHANGED currentRules
         ELSE LoadRulesFromYAML(path)

\* The scan both scanning handlers end with; a panic of Evaluate is recovered
\* by the middleware of NewServer, which answers 500.
ScanResponse(upload, rules, debug) ==
    LET x == ExtractText(upload.data, upload.ext) IN
    IF x.err THEN Response(400, "unsupported file", "", <<>>)
    ELSE LET e == Evaluate(x.text, FileName(upload), rules, debug) IN
         IF e.panic THEN Response(500, "Internal Server Error", "", <<>>)
         ELSE Response(200, "", "", e.findings)

\* ScanHandler as it would be without its size checks.
ScanHandlerUnlimited(upload, active, debug) ==
    IF ~upload.multipart THEN Response(400, "invalid multipart", "", <<>>)
    ELSE IF ~upload.hasFile THEN Response(400, "missing file", "", <<>>)
    ELSE ScanResponse(upload, Elems(active), debug)

\* api.ScanHandler: the response.
ScanHandler(upload, active, debug) ==
    IF ~upload.multipart THEN Response(400, "invalid multipart", "", <<>>)
    ELSE IF ~upload.hasFile THEN Response(400, "missing file", "", <<>>)
    ELSE IF Len(upload.data) > maxUploadSize
         THEN Response(400, "file too large", "", <<>>)
         ELSE ScanResponse(upload, Elems(active), debug)

\* api.RulesetHandler: the rules it loaded and the response.
RulesetHandler(rule, upload, debug) ==
    IF rule = <<>>
    THEN [rules |-> <<>>,
          resp |-> Response(400, "missing rule query parameter", "", <<>>)]
    ELSE IF ContainsAny(rule)
    THEN [rules |-> <<>>, resp |-> Response(400, "invalid rule name", "", <<>>)]
    ELSE LET l == LoadRulesFromFile(<<"rules", Concat(rule) \o ".yaml">>) IN
         IF l.err # ""
         THEN [rules |-> <<>>,
               resp |-> Response(500, "failed to load ruleset", "", <<>>)]
         ELSE [rules |-> l.rules,
               resp |-> IF ~upload.multipart
                        THEN Response(400, "invalid multipart", "", <<>>)
                        ELSE IF ~upload.hasFile
                        THEN Response(400, "missing file", "", <<>>)
                        ELSE ScanResponse(upload, l.rules, debug)]

\* A health check that looks at the rules file only.
HealthHandlerFileOnly(file, active) ==
    IF ReadFile(file) = NoFile
    THEN Response(503, "rules file not readable", "", <<>>)
    ELSE Response(200, "", "", <<>>)

\* api.HealthHandler: os.Stat(rulesFile), then len(engine.GetRules()); the
\* response 200 carries the body {"status":"ok"}.
HealthHandler(file, active) ==
    IF ReadFile(file) = NoFile
    THEN Response(503, "rules file not readable", "", <<>>)
    ELSE IF active.len = 0
    THEN Response(503, "no rules loaded", "", <<>>)
    ELSE Response(200, "", "", <<>>)

(***************************************************************************)
(* The service as a state machine: main() starts it, then requests and     *)
(* calls arrive one at a time.                                             *)
(***************************************************************************)
NoBody == [ok |-> TRUE, rules |-> <<>>]

\* The record of a call or request that has just completed.
Call(op) ==
    [op |-> op, path |-> <<>>, body |-> NoBody, upload |-> NotMultipart,
     code |-> 0, err |-> "", id |-> "", ret |-> <<>>, findings |-> <<>>,
     text |-> <<>>, fileID |-> "", panic |-> FALSE, prev |-> <<>>]

WithResponse(call, resp) ==
    [call EXCEPT !.code = resp.code, !.err = resp.err, !.id = resp.id,
                 !.findings = resp.findings]

NoGoroutines == [w |-> <<>>, r |-> <<>>]

Init ==
    /\ currentRules = NilSlice
    /\ debugMode = FALSE
    /\ rulesFile = <<>>
    /\ server = "init"
    /\ last = Call("none")
    /\ gor = NoGoroutines

\* The values of RULES_FILE; <<>> is unset.
EnvRulesFile ==
    {<<>>, <<"rules", "list.yaml">>, <<"rules", "map.yaml">>,
     <<"rules", "nosuch.yaml">>, <<"rules", "garbage.yaml">>,
     <<"rules", "badregex.yaml">>}

\* The files a caller of the engine names.
FilePaths == {<<"rules", n \o ".yaml">> : n \in FileNames \cup {"nosuch"}}

\* main as it would be if run ignored the error of NewServer.
MainLenient ==
    /\ server = "init"
    /\ \E debug \in BOOLEAN, env \in EnvRulesFile :
         LET file == IF env = <<>> THEN <<"config", "default.yaml">> ELSE env
             r == LoadRulesFromYAMLResult(file)
         IN /\ debugMode' = debug
            /\ rulesFile' = file
            /\ LoadRulesFromYAML(file)
            /\ server' = "serving"
            /\ last' = [Call("NewServer") EXCEPT !.path = file, !.err = r.err,
                                                 !.id = r.id]
    /\ UNCHANGED gor

\* main, run and NewServer
Main ==
    /\ server = "init"
    /\ \E debug \in BOOLEAN, env \in EnvRulesFile :
         LET file == IF env = <<>> THEN <<"config", "default.yaml">> ELSE env
             r == LoadRulesFromYAMLResult(file)
         IN /\ debugMode' = debug
            /\ rulesFile' = file
            /\ LoadRulesFromYAML(file)
            /\ server' = IF r.err # "" THEN "failed" ELSE "serving"
            /\ last' = [Call("NewServer") EXCEPT !.path = file, !.err = r.err,
                                                 !.id = r.id]
    /\ UNCHANGED gor

\* A call of engine.LoadRulesFromYAML
CallLoadRulesFromYAML ==
    /\ server = "serving"
    /\ \E path \in FilePaths :
         LET r == LoadRulesFromYAMLResult(path) IN
         /\ LoadRulesFromYAML(path)
         /\ last' = [Call("LoadRulesFromYAML") EXCEPT !.path = path,
                                                      !.err = r.err, !.id = r.id]
    /\ UNCHANGED <<debugMode, rulesFile, server, gor>>

\* POST /rules/load
RulesLoadRequest ==
    /\ server = "serving"
    /\ \E req \in [ok : {TRUE}, path : RequestPaths]
                     \cup {[ok |-> FALSE, path |-> <<>>]} :
         /\ LoadRulesFromFileHandler(req)
         /\ last' = WithResponse(
                [Call("/rules/load") EXCEPT !.path = req.path, !.body.ok = req.ok],
                LoadResponse(req))
    /\ UNCHANGED <<debugMode, rulesFile, server, gor>>

\* POST /rules/reload
RulesReloadRequest ==
    /\ server = "serving"
    /\ \E req \in [ok : {TRUE}, rules : Bodies] \cup {[ok |-> FALSE, rules |-> <<>>]} :
         /\ ReloadRulesHandler(req)
         /\ last' = WithResponse([Call("/rules/reload") EXCEPT !.body = req],
                                 ReloadResponse(req))
    /\ UNCHANGED <<debugMode, rulesFile, server, gor>>

\* A call of engine.LoadRulesFromFile
CallLoadRulesFromFile ==
    /\ server = "serving"
    /\ \E path \in FilePaths :
         LET r == LoadRulesFromFile(path) IN
         /\ last' = [Call("LoadRulesFromFile") EXCEPT !.path = path,
                                                      !.err = r.err, !.ret = r.rules]
    /\ UNCHANGED <<currentRules, debugMode, rulesFile, server, gor>>

\* POST /ruleset as it would be if the handler activated the set it loaded.
RulesetRequestActivating ==
    /\ server = "serving"
    /\ \E rule \in RuleParams, upload \in Uploads :
         LET r == RulesetHandler(rule, upload, debugMode) IN
         /\ last' = WithResponse(
                [Call("/ruleset") EXCEPT !.path = rule, !.upload = upload,
                                         !.ret = r.rules],
                r.resp)
         /\ IF r.resp.code = 200 THEN SetRules(r.rules) ELSE UNCHANGED currentRules
    /\ UNCHANGED <<debugMode, rulesFile, server, gor>>

\* POST /ruleset?rule=...
RulesetRequest ==
    /\ server = "serving"
    /\ \E rule \in RuleParams, upload \in Uploads :
         LET r == RulesetHandler(rule, upload, debugMode) IN
         /\ last' = WithResponse(
                [Call("/ruleset") EXCEPT !.path = rule, !.upload = upload,
                                         !.ret = r.rules],
                r.resp)
    /\ UNCHANGED <<currentRules, debugMode, rulesFile, server, gor>>

\* POST /scan
ScanRequest ==
    /\ server = "serving"
    /\ \E upload \in Uploads \cup {Upload(TRUE, ".txt", <<"a", "a", "a", "a", "a">>),
                                  Upload(TRUE, ".bin", <<"a", "a", "a", "a", "a">>),
                                  Upload(TRUE, ".txt", <<"a", "\n", "b", "a">>)} :
         /\ last' = WithResponse([Call("/scan") EXCEPT !.upload = upload],
                                 ScanHandler(upload, GetRules, debugMode))
    /\ UNCHANGED <<currentRules, debugMode, rulesFile, server, gor>>

\* GET /health
HealthRequest ==
    /\ server = "serving"
    /\ last' = WithResponse(Call("/health"), HealthHandler(rulesFile, GetRules))
    /\ UNCHANGED <<currentRules, debugMode, rulesFile, server, gor>>

Next ==
    \/ Main
    \/ CallLoadRulesFromYAML
    \/ RulesLoadRequest
    \/ RulesReloadRequest
    \/ CallLoadRulesFromFile
    \/ RulesetRequest
    \/ ScanRequest
    \/ HealthRequest

Spec == Init /\ [][Next]_vars

(***************************************************************************)
(* The store primitives called directly, as the unit tests call them.      *)
(***************************************************************************)
\* The rule lists a caller hands to SetRules: decoded rules, valid or not,
\* and rules that carry a compiled pattern.
StoreLists ==
    ListsUpTo(DecodedRules \cup {rQuest, [rGood1 EXCEPT !.CompiledPattern = <<"a">>]},
              MaxRules)

\* A call of engine.SetRules
CallSetRules ==
    /\ \E rules \in StoreLists :
         /\ SetRules(rules)
         /\ last' = [Call("SetRules") EXCEPT !.body.rules = rules]
    /\ UNCHANGED <<debugMode, rulesFile, server, gor>>

\* A call of engine.GetRules; the record keeps the argument of the SetRules
\* call before it.
CallGetRules ==
    /\ last' = [last EXCEPT !.op = "GetRules", !.ret = Elems(GetRules)]
    /\ UNCHANGED <<currentRules, debugMode, rulesFile, server, gor>>

\* A call of api.SetRulesFile; the record keeps the argument of the SetRules
\* call before it.
CallSetRulesFile ==
    /\ \E path \in {<<>>, <<"rules", "list.yaml">>, <<"rules", "nosuch.yaml">>} :
         /\ rulesFile' = path
         /\ last' = [last EXCEPT !.op = "SetRulesFile", !.path = path]
    /\ UNCHANGED <<currentRules, debugMode, server, gor>>

\* A call of api.HealthHandler; the record keeps the argument of the
\* SetRules call before it.
CallHealthHandler ==
    /\ LET resp == HealthHandler(rulesFile, GetRules) IN
       last' = [last EXCEPT !.op = "/health", !.code = resp.code, !.err = resp.err]
    /\ UNCHANGED <<currentRules, debugMode, rulesFile, server, gor>>

NextStore ==
    \/ CallSetRules
    \/ CallGetRules
    \/ CallSetRulesFile
    \/ CallHealthHandler

SpecStore == Init /\ [][NextStore]_vars

(***************************************************************************)
(* Goroutines calling SetRules and GetRules with no synchronisation.  The  *)
(* package holds the slice in a plain variable and neither function takes  *)
(* a lock, so `currentRules = rules` and `return currentRules` are a store *)
(* and a load of a multi-word value racing with each other: each word is   *)
(* stored and loaded on its own, in an order the compiler chooses.         *)
(***************************************************************************)
Words == {"arr", "len"}

\* The rule lists the reloading goroutines have built and compiled.
ReloadLists ==
    { <<>>,
      <<[rGood1 EXCEPT !.CompiledPattern = <<"a">>]>>,
      <<[rGood2 EXCEPT !.CompiledPattern = <<"b">>],
        [rGood1 EXCEPT !.CompiledPattern = <<"a">>]>> }

Writers == 1..MaxWriters

IdleWriter == [pc |-> "idle", arg |-> <<>>, todo |-> {}]

IdleReader == [pc |-> "idle", got |-> NilSlice, todo |-> {}]

InitConc ==
    /\ currentRules = NilSlice
    /\ debugMode = FALSE
    /\ rulesFile = <<"rules", "list.yaml">>
    /\ server = "serving"
    /\ last = Call("none")
    /\ gor = [w |-> [i \in Writers |-> IdleWriter], r |-> IdleReader]

\* A goroutine enters SetRules(rules).
WriterCall(i) ==
    /\ gor.w[i].pc = "idle"
    /\ \E rules \in ReloadLists :
         gor' = [gor EXCEPT !.w[i] = [pc |-> "storing", arg |-> rules, todo |-> Words]]
    /\ UNCHANGED <<currentRules, debugMode, rulesFile, server, last>>

\* engine.SetRules, one word of `currentRules = rules`
WriterStore(i) ==
    /\ gor.w[i].pc = "storing"
    /\ \E f \in gor.w[i].todo :
         /\ currentRules' = [currentRules EXCEPT ![f] = Slice(gor.w[i].arg)[f]]
         /\ gor' = [gor EXCEPT !.w[i].todo = @ \ {f},
                               !.w[i].pc = IF gor.w[i].todo = {f} THEN "done" ELSE @]
    /\ UNCHANGED <<debugMode, rulesFile, server, last>>

\* A goroutine enters GetRules().
ReaderCall ==
    /\ gor.r.pc \in {"idle", "done"}
    /\ gor' = [gor EXCEPT !.r = [pc |-> "loading", got |-> NilSlice, todo |-> Words]]
    /\ UNCHANGED <<currentRules, debugMode, rulesFile, server, last>>

\* engine.GetRules, one word of `return currentRules`
ReaderLoad ==
    /\ gor.r.pc = "loading"
    /\ \E f \in gor.r.todo :
         gor' = [gor EXCEPT !.r.got[f] = currentRules[f],
                            !.r.todo = @ \ {f},
                            !.r.pc = IF gor.r.todo = {f} THEN "done" ELSE @]
    /\ UNCHANGED <<currentRules, debugMode, rulesFile, server, last>>

\* The file of the scan request whose handler is the reading goroutine.
ScanUpload == Upload(TRUE, ".txt", <<"a", "\n", "b">>)

\* The rules a goroutine ranges over through the header s.  Where the length
\* of the header exceeds the backing array, the read runs past the array
\* into whatever memory follows it, here a rule record of some list.
PastTheArray == {r \in UNION {{l[i] : i \in 1..Len(l)} : l \in ReloadLists} : TRUE}

\* api.ScanHandler from the return of GetRules on: Evaluate on the rules
\* the returned header gives access to, or a fault of the out-of-bounds
\* read, which the recovery middleware answers with 500.
ReaderScan ==
    /\ gor.r.pc = "done"
    /\ LET s == gor.r.got IN
       \/ \E junk \in PastTheArray :
             LET rules == [i \in 1..s.len |->
                              IF i <= Len(s.arr) THEN s.arr[i] ELSE junk]
             IN last' = WithResponse([Call("/scan") EXCEPT !.upload = ScanUpload],
                                     ScanResponse(ScanUpload, rules, debugMode))
       \/ /\ s.len > Len(s.arr)
          /\ last' = WithResponse([Call("/scan") EXCEPT !.upload = ScanUpload],
                                  Response(500, "Internal Server Error", "", <<>>))
    /\ gor' = [gor EXCEPT !.r.pc = "scanned"]
    /\ UNCHANGED <<currentRules, debugMode, rulesFile, server>>

NextConc ==
    \/ \E i \in Writers : WriterCall(i)
    \/ \E i \in Writers : WriterStore(i)
    \/ ReaderCall
    \/ ReaderLoad
    \/ ReaderScan

SpecConc == InitConc /\ [][NextConc]_vars

(***************************************************************************)
(* Evaluate called directly, as the unit tests and the scanning handlers   *)
(* call it, between calls that change the package state.                   *)
(***************************************************************************)
\* A rule as LoadRulesFromYAML leaves it in the active set.
Loaded(rule) == [rule EXCEPT !.CompiledPattern = Compile(WrapDotAll(rule.Pattern))]

\* A rule a caller builds with regexp.MustCompile(pattern).
Built(rule) == [rule EXCEPT !.CompiledPattern = Compile(rule.Pattern)]

rStar == Rule("r2", <<"b", "*">>, "low", "matches the empty string")

\* The rules Evaluate is handed: loaded, built by the caller with a compiled
\* pattern, and built by the caller with the four fields only.
EvalRules == {Loaded(rGood1), Built(rStar), Loaded(rQuest), rGood1, rBadRegex}

EvalLists == ListsUpTo(EvalRules, MaxRules)

EvalTexts ==
    { <<>>,
      <<"a">>,
      <<"b", "a", "\n", "a">>,
      <<"a", "\r", "\n">>,
      <<"b", "\n", "a", "b", "\n", "b">> }

EvalFileIDs == {"file", "doc.txt"}

\* The arguments of the calls of Evaluate are drawn at the start; last holds
\* them until the first call.
InitEval ==
    /\ currentRules = NilSlice
    /\ debugMode = FALSE
    /\ rulesFile = <<>>
    /\ server = "init"
    /\ \E text \in EvalTexts, fileID \in EvalFileIDs, rules \in EvalLists :
         last = [Call("none") EXCEPT !.text = text, !.fileID = fileID,
                                     !.body.rules = rules]
    /\ gor = NoGoroutines

\* A call of Evaluate as it would be if Evaluate kept the rules it was
\* given as the active set.
CallEvaluateStoring ==
    /\ last.op = "none"
    /\ LET r == Evaluate(last.text, last.fileID, last.body.rules, debugMode) IN
       last' = [last EXCEPT !.op = "Evaluate", !.panic = r.panic,
                            !.findings = r.findings]
    /\ SetRules(last.body.rules)
    /\ UNCHANGED <<debugMode, rulesFile, server, gor>>

\* A call of engine.Evaluate
CallEvaluate ==
    /\ last.op = "none"
    /\ LET r == Evaluate(last.text, last.fileID, last.body.rules, debugMode) IN
       last' = [last EXCEPT !.op = "Evaluate", !.panic = r.panic,
                            !.findings = r.findings]
    /\ UNCHANGED <<currentRules, debugMode, rulesFile, server, gor>>

\* A later call of engine.Evaluate with the same arguments; prev keeps what
\* the call before it returned.
CallEvaluateAgain ==
    /\ last.op \in {"Evaluate", "Evaluate again"}
    /\ ~last.panic
    /\ LET r == Evaluate(last.text, last.fileID, last.body.rules, debugMode) IN
       last' = [last EXCEPT !.op = "Evaluate again", !.prev = last.findings,
                            !.panic = r.panic, !.findings = r.findings]
    /\ UNCHANGED <<currentRules, debugMode, rulesFile, server, gor>>

\* A call of engine.SetDebugMode
CallSetDebugMode ==
    /\ \E mode \in BOOLEAN : debugMode' = mode
    /\ debugMode' # debugMode
    /\ UNCHANGED <<currentRules, rulesFile, server, last, gor>>

\* A call of engine.SetRules between two calls of Evaluate.
SetRulesBetween ==
    /\ \E rules \in {<<>>, <<Loaded(rGood1)>>} :
         /\ SetRules(rules)
         /\ Slice(rules) # currentRules
    /\ UNCHANGED <<debugMode, rulesFile, server, last, gor>>

NextEval ==
    \/ CallEvaluate
    \/ CallEvaluateAgain
    \/ CallSetDebugMode
    \/ SetRulesBetween

SpecEval == InitEval /\ [][NextEval]_vars

(***************************************************************************)
(* The smart analyzer: regex evaluation first, then the LLM where the      *)
(* gating allows it.  The replies of the LLM service are inputs.           *)
(***************************************************************************)
\* llm.NewSmartAnalyzer: the analyzer with the defaults filled in.
NewSmartAnalyzer(analyzer, config) ==
    [analyzer |-> analyzer,
     config |->
        [config EXCEPT
            !.MinFindingsThreshold = IF @ = 0 THEN 1 ELSE @,
            !.TriggerSeverities = IF Len(@) = 0 THEN <<"high", "medium">> ELSE @,
            !.MinDocumentLength = IF @ = 0 THEN 100 ELSE @,
            !.MaxDocumentLength = IF @ = 0 THEN 8000 ELSE @]]

\* strings.EqualFold on the severities in use.
EqualFold(s, t) == ToLower(s) = ToLower(t)

\* strings.Contains on the rule ids in use.
Contains(s, substr) ==
    substr \in CASE s = "r1" -> {"", "r", "1", "r1"}
                 [] s = "r2" -> {"", "r", "2", "r2"}
                 [] OTHER -> {"", s}

\* (*SmartAnalyzer).shouldUseLLM: the decision and the kind of its reason.
shouldUseLLM(s, text, findings) ==
    LET hasTargetSeverity ==
            \E i \in 1..Len(findings), j \in 1..Len(s.config.TriggerSeverities) :
               EqualFold(findings[i].Severity, s.config.TriggerSeverities[j])
        hasTargetRuleType ==
            \E i \in 1..Len(findings), j \in 1..Len(s.config.AnalyzeRuleTypes) :
               Contains(findings[i].RuleID, s.config.AnalyzeRuleTypes[j])
    IN IF Len(text) < s.config.MinDocumentLength
       THEN [use |-> FALSE, reason |-> "Document too short"]
       ELSE IF Len(findings) < s.config.MinFindingsThreshold
       THEN [use |-> FALSE, reason |-> "Insufficient findings"]
       ELSE IF ~hasTargetSeverity
       THEN [use |-> FALSE, reason |-> "No findings match target severities"]
       ELSE IF Len(s.config.AnalyzeRuleTypes) > 0 /\ ~hasTargetRuleType
       THEN [use |-> FALSE, reason |-> "No findings match target rule types"]
       ELSE [use |-> TRUE, reason |-> "LLM analysis triggered"]

\* A reply of LLMService.Complete: an error, or a text that holds JSON or
\* not, with the findings the JSON declares valid.
Reply(err, json, valid) ==
    [err |-> err, json |-> json, valid |-> valid, TokensUsed |-> IF err THEN 0 ELSE 7]

\* (*Analyzer).AnalyzeDocument: an error where the service is disabled or
\* its call fails; a reply that does not parse gives the one raw finding.
AnalyzeDocument(a) ==
    IF ~a.service.enabled THEN [err |-> TRUE, Findings |-> <<>>, TokensUsed |-> 0]
    ELSE IF a.service.analysis.err
    THEN [err |-> TRUE, Findings |-> <<>>, TokensUsed |-> 0]
    ELSE [err |-> FALSE,
          Findings |-> IF a.service.analysis.json THEN <<>>
                       ELSE <<[RuleID |-> "llm-analysis", Severity |-> "info",
                               Line |-> 1]>>,
          TokensUsed |-> a.service.analysis.TokensUsed]

RECURSIVE parseValidationResponse(_, _, _)
\* (*Analyzer).parseValidationResponse from finding i on: the findings whose
\* zero-based index the reply lists.
parseValidationResponse(valid, originalFindings, i) ==
    IF i > Len(originalFindings) THEN <<>>
    ELSE (IF (i - 1) \in valid THEN <<originalFindings[i]>> ELSE <<>>)
         \o parseValidationResponse(valid, originalFindings, i + 1)

\* (*Analyzer).ValidateFindings: the findings the LLM keeps; the findings
\* it was given where the service is off, the call fails or the reply does
\* not parse.  It returns no error on any path.
ValidateFindings(a, findings) ==
    IF ~a.service.enabled \/ Len(findings) = 0
    THEN [err |-> FALSE, findings |-> findings]
    ELSE IF a.service.validation.err \/ ~a.service.validation.json
    THEN [err |-> FALSE, findings |-> findings]
    ELSE [err |-> FALSE,
          findings |-> parseValidationResponse(a.service.validation.valid,
                                               findings, 1)]

\* The result AnalyzeWithPrefiltering starts from.
SmartAnalysisResult(regexFindings, reason) ==
    [RegexFindings |-> regexFindings, LLMUsed |-> FALSE, LLMFindings |-> <<>>,
     ValidatedFindings |-> <<>>, TokensUsed |-> 0, AnalysisReason |-> reason]

\* AnalyzeWithPrefiltering as it would be if it gave up the regex findings
\* when the LLM analysis fails.
AnalyzeWithPrefilteringStrict(s, text, filename, rules, debug) ==
    LET e == Evaluate(text, filename, rules, debug)
        regexFindings == e.findings
        gate == shouldUseLLM(s, text, regexFindings)
        result == SmartAnalysisResult(regexFindings, gate.reason)
    IN IF e.panic THEN [panic |-> TRUE, err |-> "", result |-> <<>>]
       ELSE IF ~gate.use
       THEN [panic |-> FALSE, err |-> "",
             result |-> [result EXCEPT !.ValidatedFindings = regexFindings]]
       ELSE IF ~s.analyzer.nil /\ ~s.analyzer.service.nil
               /\ s.analyzer.service.enabled
       THEN LET llmResponse == AnalyzeDocument(s.analyzer)
                validated == ValidateFindings(s.analyzer, regexFindings)
            IN IF llmResponse.err
               THEN [panic |-> FALSE, err |-> "LLM analysis failed",
                     result |-> [result EXCEPT !.LLMUsed = TRUE]]
               ELSE [panic |-> FALSE, err |-> "",
                     result |->
                        [result EXCEPT
                            !.LLMUsed = TRUE,
                            !.LLMFindings = llmResponse.Findings,
                            !.TokensUsed = llmResponse.TokensUsed,
                            !.ValidatedFindings =
                               IF validated.err THEN regexFindings
                               ELSE validated.findings]]
       ELSE [panic |-> FALSE, err |-> "",
             result |-> [result EXCEPT !.ValidatedFindings = regexFindings]]

\* (*SmartAnalyzer).AnalyzeWithPrefiltering: the result and the error, or
\* the panic of Evaluate.  The text is cut for the LLM only; the cost note
\* of the result is left out.
AnalyzeWithPrefiltering(s, text, filename, rules, debug) ==
    LET e == Evaluate(text, filename, rules, debug)
        regexFindings == e.findings
        gate == shouldUseLLM(s, text, regexFindings)
        result == SmartAnalysisResult(regexFindings, gate.reason)
    IN IF e.panic THEN [panic |-> TRUE, err |-> "", result |-> <<>>]
       ELSE IF ~gate.use
       THEN [panic |-> FALSE, err |-> "",
             result |-> [result EXCEPT !.ValidatedFindings = regexFindings]]
       ELSE IF ~s.analyzer.nil /\ ~s.analyzer.service.nil
               /\ s.analyzer.service.enabled
       THEN LET llmResponse == AnalyzeDocument(s.analyzer)
                validated == ValidateFindings(s.analyzer, regexFindings)
            IN IF llmResponse.err
               THEN [panic |-> FALSE, err |-> "",
                     result |-> [result EXCEPT !.LLMUsed = TRUE,
                                               !.ValidatedFindings = regexFindings]]
               ELSE [panic |-> FALSE, err |-> "",
                     result |->
                        [result EXCEPT
                            !.LLMUsed = TRUE,
                            !.LLMFindings = llmResponse.Findings,
                            !.TokensUsed = llmResponse.TokensUsed,
                            !.ValidatedFindings =
                               IF validated.err THEN regexFindings
                               ELSE validated.findings]]
       ELSE [panic |-> FALSE, err |-> "",
             result |-> [result EXCEPT !.ValidatedFindings = regexFindings]]

\* The configurations the analyzer is built with.
SmartConfig(threshold, severities, length, types) ==
    [MinFindingsThreshold |-> threshold, TriggerSeverities |-> severities,
     MinDocumentLength |-> length, MaxDocumentLength |-> 0,
     AnalyzeRuleTypes |-> types, SkipIfHighConfidence |-> FALSE]

SmartConfigs ==
    { SmartConfig(0, <<>>, 0, <<>>),
      SmartConfig(0, <<>>, 1, <<>>),
      SmartConfig(2, <<"LOW">>, 1, <<>>),
      SmartConfig(0, <<"medium", "HIGH">>, 1, <<"2">>) }

\* An LLMService: whether the interface holds one, whether it is enabled,
\* and its replies to the analysis and to the validation prompt.
LLMService(nil, enabled, analysis, validation) ==
    [nil |-> nil, enabled |-> enabled, analysis |-> analysis,
     validation |-> validation]

\* An *Analyzer, which may be nil.
Analyzer(nil, service) == [nil |-> nil, service |-> service]

\* The analyzers: none, one without a service, one whose service is
\* disabled, and the enabled services with their two replies.
Analyzers ==
    LET none == LLMService(TRUE, FALSE, Reply(TRUE, FALSE, {}), Reply(TRUE, FALSE, {}))
    IN {Analyzer(TRUE, none), Analyzer(FALSE, none)}
       \cup {Analyzer(FALSE, LLMService(FALSE, FALSE, Reply(FALSE, TRUE, {}),
                                        Reply(FALSE, TRUE, {0})))}
       \cup {Analyzer(FALSE, LLMService(FALSE, TRUE, a, v)) :
               a \in {Reply(TRUE, FALSE, {}), Reply(FALSE, FALSE, {}),
                      Reply(FALSE, TRUE, {})},
               v \in {Reply(TRUE, FALSE, {}), Reply(FALSE, FALSE, {}),
                      Reply(FALSE, TRUE, {0})}}

SmartRules == {Loaded(rGood1), Loaded(rGood2), rBadRegex}

SmartLists == ListsUpTo(SmartRules, MaxRules)

\* The analyzer and the arguments of its call are drawn at the start.
InitSmart ==
    /\ currentRules = NilSlice
    /\ debugMode = FALSE
    /\ rulesFile = <<>>
    /\ server = "init"
    /\ \E text \in EvalTexts, rules \in SmartLists,
          analyzer \in Analyzers, config \in SmartConfigs :
         last = [Call("none") EXCEPT
                    !.text = text, !.fileID = "doc.txt",
                    !.body = [ok |-> TRUE, rules |-> rules,
                              s |-> NewSmartAnalyzer(analyzer, config)]]
    /\ gor = NoGoroutines

\* A call of (*SmartAnalyzer).AnalyzeWithPrefiltering
CallAnalyzeWithPrefiltering ==
    /\ last.op = "none"
    /\ LET r == AnalyzeWithPrefiltering(last.body.s, last.text, last.fileID,
                                        last.body.rules, debugMode)
       IN last' = [last EXCEPT !.op = "AnalyzeWithPrefiltering",
                               !.panic = r.panic, !.err = r.err,
                               !.ret = r.result]
    /\ UNCHANGED <<currentRules, debugMode, rulesFile, server, gor>>

NextSmart ==
    \/ CallAnalyzeWithPrefiltering
    \/ CallSetDebugMode

SpecSmart == InitSmart /\ [][NextSmart]_vars

(***************************************************************************)
(* Properties.                                                             *)
(***************************************************************************)
\* The rules of a list without their compiled patterns: id, pattern,
\* severity and description in each position.
Fields(rules) == [i \in 1..Len(rules) |-> [rules[i] EXCEPT !.CompiledPattern = Nil]]

\* The calls and requests that load a rule-set definition and activate it.
ActivatingOps == {"LoadRulesFromYAML", "/rules/load", "/rules/reload"}

\* The rule-set definition a load-and-activate call was given (the rules of
\* the file it names, or of the request body).
Proposed(call) ==
    CASE call.op \in {"LoadRulesFromYAML", "NewServer"} -> ReadFile(call.path).rules
      [] call.op = "/rules/load" ->
            IF call.body.ok /\ call.path # <<>> /\ Clean(call.path)[1] # ".."
            THEN ReadFile(Clean(call.path)).rules ELSE <<>>
      [] call.op = "/rules/reload" -> call.body.rules
      [] OTHER -> <<>>

Failed(call) == call.err # ""

\* C1: under concurrent SetRules and GetRules, every GetRules result is in
\* full the initial set or a set some SetRules call was given, and once all
\* the concurrent SetRules calls have returned the active set is one of
\* the sets they were given.
C1_AtomicActivation ==
    LET started == {i \in DOMAIN gor.w : gor.w[i].pc # "idle"}
        proposed == {NilSlice} \cup {Slice(gor.w[i].arg) : i \in started}
    IN /\ gor.r.pc = "done" => gor.r.got \in proposed
       /\ (started # {} /\ \A i \in DOMAIN gor.w : gor.w[i].pc = "done")
              => currentRules \in {Slice(gor.w[i].arg) : i \in started}

\* C2: GetRules after SetRules(R), with no write in between, returns exactly
\* R, whatever R is: SetRules validates nothing and rejects nothing.
C2_SetThenGet == last.op = "GetRules" => last.ret = last.body.rules

C2_Witness ==
    /\ last.op = "GetRules"
    /\ last.body.rules = <<rEmptyId, rBadRegex>>
    /\ last.ret = <<rEmptyId, rBadRegex>>

\* C3: a load-and-activate operation that reports an error leaves the active
\* rule set as it was before the call.
C3_FailedLoadKeepsActiveSet ==
    [][(last'.op \in ActivatingOps /\ Failed(last')) => currentRules' = currentRules]_vars

C3_Witness ==
    /\ last.op = "LoadRulesFromYAML"
    /\ last.path = <<"rules", "badregex.yaml">>
    /\ last.err = "compile"
    /\ Fields(Elems(currentRules)) = <<rGood2, rGood1>>

\* C4: loading a definition in which two rules share an id fails with an
\* error and does not alter the active rule set.
C4_DuplicateIdRejected ==
    [][(last'.op \in ActivatingOps /\ FirstDuplicate(Proposed(last')) # 0)
          => (Failed(last') /\ currentRules' = currentRules)]_vars

\* C5: loading a definition with a rule whose severity is outside
\* {low, medium, high, informational} fails with an error and the definition
\* does not become the active set.
C5_InvalidSeverityRejected ==
    (/\ last.op \in ActivatingOps
     /\ \E i \in 1..Len(Proposed(last)) :
           ToLower(Proposed(last)[i].Severity) \notin AllowedSeverities)
    => (Failed(last) /\ Fields(Elems(currentRules)) # Proposed(last))

\* C6: loading a definition with a rule whose id is empty is rejected with
\* an error, and no load leaves a rule with an empty id in the active set.
C6_EmptyIdRejected ==
    /\ (/\ last.op \in ActivatingOps
        /\ \E i \in 1..Len(Proposed(last)) : Proposed(last)[i].ID = "")
       => Failed(last)
    /\ (last.op \in ActivatingOps /\ ~Failed(last))
       => \A i \in 1..currentRules.len : currentRules.arr[i].ID # ""

\* C7: on the strict path (LoadRulesFromYAML, /rules/reload) a definition
\* with a rule whose pattern does not compile is rejected as a whole: an
\* error is returned (400 for /rules/reload), a compile error names a rule
\* whose pattern does not compile, and the definition is not activated.
C7_BadPatternRejected ==
    LET bad == {i \in 1..Len(Proposed(last)) :
                   Compile(Proposed(last)[i].Pattern) = Nil}
    IN (last.op \in {"LoadRulesFromYAML", "/rules/reload"} /\ bad # {})
       => /\ Failed(last)
          /\ last.op = "/rules/reload" => last.code = 400
          /\ last.err = "compile" => \E i \in bad : Proposed(last)[i].ID = last.id

\* C8: LoadRulesFromFile and a /ruleset scan, successful or not, leave the
\* active rule set unchanged, and a /scan answers with the findings of the
\* active set.
C8_AlternateLoadKeepsActiveSet ==
    [][/\ last'.op \in {"LoadRulesFromFile", "/ruleset"} => currentRules' = currentRules
       /\ (last'.op = "/scan" /\ last'.code = 200)
             => /\ currentRules' = currentRules
                /\ last'.findings =
                      Evaluate(last'.upload.data, FileName(last'.upload),
                               Elems(currentRules), debugMode).findings]_vars

C8_Witness ==
    /\ last.op = "/ruleset"
    /\ last.code = 200
    /\ last.ret = <<rGood1, rGood2>>
    /\ Fields(Elems(currentRules)) = <<rGood2>>

\* C9: every rule LoadRulesFromFile returns is validated and carries a
\* compiled pattern, and a /ruleset scan reports a finding for every rule of
\* the named set and every line its pattern matches.
C9_LoadedRulesUsable ==
    /\ (last.op = "LoadRulesFromFile" /\ ~Failed(last))
       => /\ ValidateRules(last.ret).err = ""
          /\ \A i \in 1..Len(last.ret) : last.ret[i].CompiledPattern # Nil
    /\ (last.op = "/ruleset" /\ last.code = 200)
       => \A i \in 1..Len(last.ret), n \in 1..Len(Split(last.upload.data)) :
             (/\ Compile(last.ret[i].Pattern) # Nil
              /\ MatchString(last.ret[i].Pattern, Split(last.upload.data)[n]))
             => \E k \in 1..Len(last.findings) :
                   /\ last.findings[k].RuleID = last.ret[i].ID
                   /\ last.findings[k].Line = n

\* C10: LoadRulesFromYAML on a document whose single top-level key `rules`
\* holds valid rule records succeeds and makes GetRules return exactly those
\* rules, in document order, with the document's field values.
C10_LoadActivatesDocument ==
    (/\ last.op = "LoadRulesFromYAML"
     /\ ReadFile(last.path).shape = "map"
     /\ ValidateRules(ReadFile(last.path).rules).err = "")
    => (~Failed(last) /\ Fields(Elems(GetRules)) = ReadFile(last.path).rules)

\* The file a load call or request reads: the path as given, cleaned by
\* the /rules/load handler.
SourceOf(call) ==
    IF call.op = "/rules/load" THEN ReadFile(Clean(call.path)) ELSE ReadFile(call.path)

\* The source cannot be read (no such file) or cannot be parsed (malformed).
Unreadable(doc) == doc = NoFile \/ doc.shape = "malformed"

\* C11: when the rule-set source is missing or malformed, LoadRulesFromYAML
\* and LoadRulesFromFile return an error, a /rules/load request that passed
\* the path checks answers 500, and the active rule set stays as it was.
C11_UnreadableSourceSurfaced ==
    [][(/\ last'.op \in {"LoadRulesFromYAML", "LoadRulesFromFile", "/rules/load"}
        /\ last'.op = "/rules/load"
              => (last'.body.ok /\ last'.path # <<>> /\ Clean(last'.path)[1] # "..")
        /\ Unreadable(SourceOf(last')))
       => /\ Failed(last')
          /\ last'.op = "/rules/load" => last'.code = 500
          /\ currentRules' = currentRules]_vars

C11_Witness ==
    /\ last.op = "/rules/load"
    /\ last.path = <<"rules", "garbage.yaml">>
    /\ last.code = 500
    /\ Fields(Elems(currentRules)) = <<rGood1, rGood2>>

\* The calls of Evaluate that returned.
Returned(call) == call.op \in {"Evaluate", "Evaluate again"} /\ ~call.panic

\* Number of "\n" in a text.
NumNewlines(text) == Cardinality({i \in 1..Len(text) : text[i] = "\n"})

\* Position of the n-th "\n" of a text; 0 for n = 0, one past the end when
\* the text has fewer.
NewlineAt(text, n) ==
    LET nl == {i \in 1..Len(text) : text[i] = "\n"} IN
    IF n = 0 THEN 0
    ELSE IF n > Cardinality(nl) THEN Len(text) + 1
    ELSE CHOOSE i \in nl : Cardinality({j \in nl : j <= i}) = n

\* The n-th line of a text: what lies between its (n-1)-th and n-th "\n".
LineAt(text, n) == SubSeq(text, NewlineAt(text, n - 1) + 1, NewlineAt(text, n) - 1)

\* The rule carries a matcher.
Usable(rule) == rule.CompiledPattern # Nil

\* The rule's compiled pattern matches somewhere inside the line.
Matches(rule, line) == Usable(rule) /\ MatchString(rule.CompiledPattern, line)

\* The finding reports this rule: same id, severity and description.
Reports(f, rule) ==
    /\ f.RuleID = rule.ID
    /\ f.Severity = rule.Severity
    /\ f.Description = rule.Description

C13_FindingsInEncounterOrder ==
    Returned(last) =>
       LET rules == last.body.rules
           f == last.findings
       IN \A i, j \in 1..Len(f) :
             i < j =>
                \/ f[i].Line < f[j].Line
                \/ /\ f[i].Line = f[j].Line
                   /\ \E p, q \in 1..Len(rules) :
                         /\ p < q
                         /\ Reports(f[i], rules[p])
                         /\ Matches(rules[p], LineAt(last.text, f[i].Line))
                         /\ Reports(f[j], rules[q])
                         /\ Matches(rules[q], LineAt(last.text, f[j].Line))

C13_Witness ==
    /\ last.op = "Evaluate"
    /\ last.text = <<"b", "\n", "a", "b", "\n", "b">>
    /\ last.body.rules = <<Built(rStar), Loaded(rGood1)>>
    /\ Len(last.findings) = 4
    /\ last.findings[2].Line = 2 /\ last.findings[2].RuleID = "r2"
    /\ last.findings[3].Line = 2 /\ last.findings[3].RuleID = "r1"
    /\ last.findings[4].Line = 3

\* C14: every finding has the 1-based number of the matching line of the
\* text split at "\n", that line in full as its context, the file id of the
\* call, and the id, severity and description of the matching rule.
C14_FindingFields ==
    Returned(last) =>
       LET rules == last.body.rules
           f == last.findings
       IN \A i \in 1..Len(f) :
             /\ f[i].Line \in 1..(NumNewlines(last.text) + 1)
             /\ f[i].Context = LineAt(last.text, f[i].Line)
             /\ f[i].FileID = last.fileID
             /\ \E k \in 1..Len(rules) :
                   /\ Reports(f[i], rules[k])
                   /\ Matches(rules[k], f[i].Context)

C14_Witness ==
    /\ last.op = "Evaluate"
    /\ last.text = <<"b", "a", "\n", "a">>
    /\ last.findings =
          << [FileID |-> "doc.txt", RuleID |-> "r1", Severity |-> "high",
              Line |-> 1, Context |-> <<"b", "a">>, Description |-> "contains a"],
             [FileID |-> "doc.txt", RuleID |-> "r1", Severity |-> "high",
              Line |-> 2, Context |-> <<"a">>, Description |-> "contains a"] >>

\* A malformed rule: its pattern does not compile and it has no matcher.
Malformed(rule) == Compile(rule.Pattern) = Nil /\ ~Usable(rule)

\* The rule list without its malformed rules.
WithoutMalformed(rules) == SelectSeq(rules, LAMBDA r : ~Malformed(r))

\* C15: a malformed rule never makes Evaluate fail and never changes what the
\* other rules report: where the call on the list without its malformed
\* rules returns, the call on the whole list returns the same findings.
C15_MalformedRuleInert ==
    [][(/\ last' # last
        /\ last'.op \in {"Evaluate", "Evaluate again"}
        /\ \E k \in 1..Len(last'.body.rules) : Malformed(last'.body.rules[k]))
       => LET rest == Evaluate(last'.text, last'.fileID,
                               WithoutMalformed(last'.body.rules), debugMode)
          IN ~rest.panic => (~last'.panic /\ last'.findings = rest.findings)]_vars

\* C16: Evaluate on rules built with id, pattern, severity and description
\* only reports every such rule whose pattern is a valid regular expression
\* on every line the pattern matches.
C16_UncompiledRulesEvaluated ==
    Returned(last) =>
       LET rules == last.body.rules
           f == last.findings
       IN \A k \in 1..Len(rules), n \in 1..(NumNewlines(last.text) + 1) :
             (/\ ~Usable(rules[k])
              /\ Compile(rules[k].Pattern) # Nil
              /\ MatchString(Compile(rules[k].Pattern), LineAt(last.text, n)))
             => \E i \in 1..Len(f) : f[i].Line = n /\ Reports(f[i], rules[k])

C18_LinesTested ==
    Returned(last) =>
       LET rules == last.body.rules
           f == last.findings
           N == NumNewlines(last.text) + 1
       IN /\ \A i \in 1..Len(f) : f[i].Line \in 1..N
          /\ \A k \in 1..Len(rules) :
                Matches(rules[k], <<>>) =>
                   \A n \in 1..N :
                      \E i \in 1..Len(f) :
                         /\ f[i].Line = n
                         /\ Reports(f[i], rules[k])
                         /\ f[i].Context = LineAt(last.text, n)

C18_Witness ==
    /\ last.op = "Evaluate"
    /\ last.text = <<"a", "\r", "\n">>
    /\ last.body.rules = <<Built(rStar)>>
    /\ Len(last.findings) = 2
    /\ last.findings[1].Context = <<"a", "\r">>
    /\ last.findings[2].Line = 2
    /\ last.findings[2].Context = <<>>

\* The requests the mux of NewServer routes to a handler.
HandlerOps == {"/scan", "/ruleset", "/rules/load", "/rules/reload", "/health"}

C22_UploadSizeLimit ==
    (last.op = "/scan" /\ last.upload.multipart /\ last.upload.hasFile) =>
       /\ Len(last.upload.data) > maxUploadSize
             => /\ last.code = 400
                /\ last.err = "file too large"
                /\ last.findings = <<>>
       /\ Len(last.upload.data) <= maxUploadSize
             => /\ last.err # "file too large"
                /\ ExtractText(last.upload.data, last.upload.ext).err
                      <=> last.err = "unsupported file"

C22_Witness ==
    /\ last.op = "/scan"
    /\ last.upload = Upload(TRUE, ".bin", <<"a", "a", "a", "a", "a">>)
    /\ last.code = 400
    /\ last.err = "file too large"

\* The path climbs above the directory it starts in: some prefix of it has
\* more ".." elements than names, which is when its cleaned form begins
\* with "..".
ClimbsOut(path) ==
    \E i \in 1..Len(path) :
       Cardinality({j \in 1..i : path[j] = ".."})
       > Cardinality({j \in 1..i : path[j] \notin {".", ".."}})

\* The rule name holds a '/', a '\' or a '.'.
HasPathCharacter(rule) ==
    \E i \in 1..Len(rule) : rule[i] \in {"/", "\\", ".", ".."}

\* C23: a /rules/load request whose cleaned path begins with ".." and a
\* /ruleset request whose rule name holds '/', '\' or '.' are answered 400
\* with no file read and no change of the active set; so are an empty path
\* and a missing rule parameter.
C23_TraversalRejected ==
    [][/\ (last'.op = "/rules/load"
            /\ (~last'.body.ok \/ last'.path = <<>> \/ ClimbsOut(last'.path)))
          => /\ last'.code = 400
             /\ last'.err = IF last'.body.ok /\ last'.path # <<>>
                             THEN "invalid path" ELSE "invalid request"
             /\ currentRules' = currentRules
       /\ (last'.op = "/ruleset"
            /\ (last'.path = <<>> \/ HasPathCharacter(last'.path)))
          => /\ last'.code = 400
             /\ last'.err = IF last'.path = <<>>
                             THEN "missing rule query parameter"
                             ELSE "invalid rule name"
             /\ last'.ret = <<>>
             /\ currentRules' = currentRules]_vars

C23_Witness ==
    /\ last.op = "/rules/load"
    /\ last.path = <<"rules", "..", "..", "rules", "list.yaml">>
    /\ last.code = 400
    /\ last.err = "invalid path"
    /\ currentRules.len = 2

\* C24: once the service runs, whatever loads and reloads succeeded or
\* failed, every rule of the active set has a non-empty id that no other
\* rule of the set has, a severity of the allowed set, and a compiled
\* matcher for its pattern.
C24_ActiveSetValid ==
    server = "serving" =>
       LET rules == Elems(GetRules) IN
       \A i \in 1..Len(rules) :
          /\ rules[i].ID # ""
          /\ \A j \in 1..Len(rules) : rules[j].ID = rules[i].ID => j = i
          /\ ToLower(rules[i].Severity) \in AllowedSeverities
          /\ rules[i].CompiledPattern # Nil
          /\ Compile(rules[i].Pattern) # Nil

\* The rule list with every severity written in lower case.
LowerCased(rules) ==
    [i \in 1..Len(rules) |-> [rules[i] EXCEPT !.Severity = ToLower(@)]]

C26_EvaluateChangesNothing ==
    [][(last' # last /\ last'.op \in {"Evaluate", "Evaluate again"})
       => /\ currentRules' = currentRules
          /\ last'.body.rules = last.body.rules
          /\ debugMode' = debugMode
          /\ rulesFile' = rulesFile]_vars

C26_Witness ==
    /\ last.op = "Evaluate"
    /\ last.body.rules = <<Loaded(rGood1), rBadRegex>>
    /\ Len(last.findings) = 2
    /\ currentRules = Slice(<<Loaded(rGood1)>>)

LLMCallFails(service) ==
    \/ service.analysis.err
    \/ service.validation.err
    \/ ~service.validation.json

\* C29: a call of AnalyzeWithPrefiltering that returns gives the findings of
\* Evaluate as RegexFindings and no error; where the LLM is not used, or its
\* analysis or validation call fails, ValidatedFindings are the regex
\* findings; LLMUsed only where the gating passed and the service is enabled.
C29_PrefilteringResult ==
    (last.op = "AnalyzeWithPrefiltering" /\ ~last.panic) =>
       LET s == last.body.s
           regex == Evaluate(last.text, last.fileID, last.body.rules, FALSE).findings
       IN /\ last.ret.RegexFindings = regex
          /\ last.err = ""
          /\ (~last.ret.LLMUsed \/ LLMCallFails(s.analyzer.service))
                => last.ret.ValidatedFindings = last.ret.RegexFindings
          /\ last.ret.LLMUsed
                => /\ shouldUseLLM(s, last.text, regex).use
                   /\ ~s.analyzer.nil
                   /\ ~s.analyzer.service.nil
                   /\ s.analyzer.service.enabled

\* The LLM was used, its analysis call failed, and the regex findings, of
\* which there are some, came back as the validated ones.
C29_Witness ==
    /\ last.op = "AnalyzeWithPrefiltering"
    /\ ~last.panic
    /\ last.ret.LLMUsed
    /\ last.body.s.analyzer.service.analysis.err
    /\ Len(last.ret.RegexFindings) > 0
    /\ last.ret.ValidatedFindings = last.ret.RegexFindings
    /\ last.err = ""

====
